---- MODULE Spec2Model ----
(***************************************************************************)
(* A model of riscvmodel: the Immediate, Register and RegisterFile types   *)
(* of types.py and the execute methods of the base instructions of isa.py. *)
(* Python integers are unbounded and two's complement under the bitwise    *)
(* operators; the operators below compute them bit by bit.                 *)
(***************************************************************************)
EXTENDS Integers, Sequences, FiniteSets, TLC

(***************************************************************************)
(* Bounds of the model.                                                    *)
(***************************************************************************)
\* width of the registers of the modelled register file; at least 6, so that
\* the masked shift count of sll (0..31) is a non-negative register value as
\* it is at the program's widths 32 and 64
XLEN == 6
\* number of registers of the modelled register file
NumRegs == 3
\* longest pending log the free-running register file collects
MaxLog == 2
\* widest Immediate
MaxImmBits == 3
\* largest left-shift count evaluated (larger results exceed 32-bit integers)
MaxShl == 20

(***************************************************************************)
(* Python's integer operators.                                             *)
(***************************************************************************)
\* 1 << n
Pow2(n) == 2 ^ n

\* v << n, for n >= 0
Shl(v, n) == v * Pow2(n)

RECURSIVE Shr(_, _)
\* v >> n, for n >= 0: the floor of v / 2^n (sign fill), one bit at a time
Shr(v, n) ==
    IF n = 0 \/ v = 0 \/ v = -1 THEN v ELSE Shr(v \div 2, n - 1)

\* ~v
BitNot(v) == (-v) - 1

RECURSIVE BitAnd(_, _)
\* a & b on two's-complement integers of any size
BitAnd(a, b) ==
    IF a = 0 \/ b = 0 THEN 0
    ELSE IF a = -1 THEN b
    ELSE IF b = -1 THEN a
    ELSE ((a % 2) * (b % 2)) + 2 * BitAnd(a \div 2, b \div 2)

RECURSIVE BitOr(_, _)
\* a | b on two's-complement integers of any size
BitOr(a, b) ==
    IF a = -1 \/ b = -1 THEN -1
    ELSE IF a = 0 THEN b
    ELSE IF b = 0 THEN a
    ELSE (IF (a % 2) + (b % 2) > 0 THEN 1 ELSE 0) + 2 * BitOr(a \div 2, b \div 2)

RECURSIVE BitXor(_, _)
\* a ^ b on two's-complement integers of any size
BitXor(a, b) ==
    IF a = 0 THEN b
    ELSE IF b = 0 THEN a
    ELSE IF a = -1 THEN BitNot(b)
    ELSE IF b = -1 THEN BitNot(a)
    ELSE (((a % 2) + (b % 2)) % 2) + 2 * BitXor(a \div 2, b \div 2)

\* a plain Python int as an operand
IntObj(n) == [kind |-> "int", value |-> n]

\* an exception raised out of an operation
Raise(type) == [kind |-> "exception", type |-> type]

(***************************************************************************)
(* Immediate                                                               *)
(***************************************************************************)
\* Immediate.__init__
Immediate(bits, signed, lsb0) ==
    [kind |-> "Immediate", bits |-> bits, signed |-> signed, lsb0 |-> lsb0,
     value |-> 0]

\* Immediate.tcmask
Immediate_tcmask(self) == Shl(1, self.bits - 1)

\* Immediate.max
Immediate_max(self) ==
    LET v == IF self.signed THEN Shl(1, self.bits - 1) - 1
             ELSE Shl(1, self.bits) - 1
    IN  IF self.lsb0 THEN v - (v % 2) ELSE v

\* Immediate.min
Immediate_min(self) == IF self.signed THEN -Shl(1, self.bits - 1) ELSE 0

\* Immediate.set: the Immediate afterwards and the exception raised, if any
\* (value is an int: the isinstance test of line 74 passes)
Immediate_set(self, value) ==
    IF self.lsb0 /\ self.value % 2 = 1
    THEN [self |-> self, exc |-> "InvalidImmediateException"]
    ELSE IF ~self.signed /\ value < 0
    THEN [self |-> self, exc |-> "InvalidImmediateException"]
    ELSE IF value < Immediate_min(self) \/ value > Immediate_max(self)
    THEN [self |-> self, exc |-> "InvalidImmediateException"]
    ELSE [self |-> [self EXCEPT !.value = value], exc |-> "none"]

\* a set_from_bits that passes the raw bits on without decoding the sign
Immediate_set_from_bits_raw(self, value) == Immediate_set(self, value)

\* Immediate.set_from_bits
Immediate_set_from_bits(self, value) ==
    LET v == IF self.signed
             THEN (-BitAnd(value, Immediate_tcmask(self)))
                      + BitAnd(value, BitNot(Immediate_tcmask(self)))
             ELSE value
    IN  Immediate_set(self, v)

\* Immediate.__int__
Immediate_int(self) == self.value

(***************************************************************************)
(* Register                                                                *)
(***************************************************************************)
\* Register.__init__
Register(bits) ==
    [kind |-> "Register", bits |-> bits, immutable |-> FALSE, value |-> 0]

\* Register.mask
Register_mask(reg) == Shl(1, reg.bits) - 1

\* Register.set_immutable
Register_set_immutable(reg, s) == [reg EXCEPT !.immutable = s]

\* Register.set: the register after set(value); value is an operand
Register_set(reg, value) ==
    LET v0 == value.value   \* a Register's or Immediate's .value, or the int
        v1 == IF ~reg.immutable THEN v0 ELSE reg.value
        v2 == IF BitAnd(Shr(v1, reg.bits - 1), 1) # 0
              THEN BitOr(v1, BitNot(Register_mask(reg)))
              ELSE BitAnd(v1, Register_mask(reg))
    IN  [reg EXCEPT !.value = v2]

\* Register.__int__
Register_int(reg) == reg.value

\* Register.unsigned
Register_unsigned(reg) == BitAnd(reg.value, Register_mask(reg))

\* int(other) for an int, a Register or an Immediate
int(other) ==
    CASE other.kind = "Register" -> Register_int(other)
      [] other.kind = "Immediate" -> Immediate_int(other)
      [] OTHER -> other.value

\* Register.__add__
Register_add(self, other) ==
    Register_set(Register(self.bits), IntObj(self.value + int(other)))

\* Register.__sub__
Register_sub(self, other) ==
    Register_set(Register(self.bits), IntObj(self.value - int(other)))

\* Register.__and__ (other is an int, a Register or an Immediate)
Register_and(self, other) ==
    Register_set(Register(self.bits), IntObj(BitAnd(self.value, other.value)))

\* Register.__or__
Register_or(self, other) ==
    Register_set(Register(self.bits), IntObj(BitOr(self.value, other.value)))

\* Register.__lt__
Register_lt(self, other) == self.value < int(other)

\* Register.__xor__
Register_xor(self, other) ==
    Register_set(Register(self.bits), IntObj(BitXor(self.value, other.value)))

\* Register.__lshift__: Python raises ValueError on a negative shift count
Register_lshift(self, other) ==
    IF other.value < 0 THEN Raise("ValueError")
    ELSE Register_set(Register(self.bits), IntObj(Shl(self.value, other.value)))

\* Register.__rshift__: Python raises ValueError on a negative shift count
Register_rshift(self, other) ==
    IF other.value < 0 THEN Raise("ValueError")
    ELSE Register_set(Register(self.bits), IntObj(Shr(self.value, other.value)))

\* Register.__cmp__, which Python 3 never calls: a nonzero result says the
\* two differ
Register_cmp(self, other) == self.bits # other.bits \/ self.value # other.value

\* self == other.  Register defines no __eq__, so for another Register this
\* is object.__eq__, true of one and the same object only (same_object);
\* for an Immediate it is the reflected Immediate.__eq__, for an int False.
Register_eq(self, other, same_object) ==
    CASE other.kind = "Register" -> same_object
      [] other.kind = "Immediate" -> other.value = self.value
      [] other.kind = "int" -> FALSE

(***************************************************************************)
(* RegisterFile                                                            *)
(***************************************************************************)
\* TraceRegister.__init__ (TraceIntegerRegister): value = int(value)
TraceIntegerRegister(id, value) == [id |-> id, value |-> Register_int(value)]

\* RegisterFile.__init__
RegisterFile(num, bits, immutable) ==
    [num |-> num, bits |-> bits,
     regs |-> [i \in 0 .. (num - 1) |->
                 IF i \in DOMAIN immutable
                 THEN Register_set_immutable(
                          Register_set(Register(bits), IntObj(immutable[i])), TRUE)
                 ELSE Register(bits)],
     regs_updates |-> << >>]

\* a setitem that writes the live register at once
RegisterFile_setitem_through(rf, key, value) ==
    IF ~rf.regs[key].immutable
    THEN [rf EXCEPT !.regs[key] = Register_set(@, value),
                    !.regs_updates = Append(@,
                        TraceIntegerRegister(key, Register_set(Register(rf.bits), value)))]
    ELSE rf

\* a setitem without the immutable test
RegisterFile_setitem_unguarded(rf, key, value) ==
    [rf EXCEPT !.regs_updates = Append(@,
        TraceIntegerRegister(key, Register_set(Register(rf.bits), value)))]

\* RegisterFile.__setitem__
RegisterFile_setitem(rf, key, value) ==
    IF ~rf.regs[key].immutable
    THEN [rf EXCEPT !.regs_updates = Append(@,
              TraceIntegerRegister(key, Register_set(Register(rf.bits), value)))]
    ELSE rf

\* RegisterFile.__getitem__
RegisterFile_getitem(rf, item) == rf.regs[item]

RECURSIVE ApplyUpdates(_, _)
\* the loop of RegisterFile.commit: regs[t.id].set(t.value) for t in regs_updates
ApplyUpdates(regs, updates) ==
    IF updates = << >> THEN regs
    ELSE ApplyUpdates(
             [regs EXCEPT ![Head(updates).id] = Register_set(@, IntObj(Head(updates).value))],
             Tail(updates))

RECURSIVE Reverse(_)
Reverse(s) == IF s = << >> THEN << >> ELSE Append(Reverse(Tail(s)), Head(s))

\* a commit that applies the log newest first
RegisterFile_commit_reversed(rf) ==
    [rf EXCEPT !.regs = ApplyUpdates(@, Reverse(rf.regs_updates)),
               !.regs_updates = << >>]

\* a commit that keeps the log
RegisterFile_commit_keeplog(rf) ==
    [rf EXCEPT !.regs = ApplyUpdates(@, rf.regs_updates)]

\* RegisterFile.commit
RegisterFile_commit(rf) ==
    [rf EXCEPT !.regs = ApplyUpdates(@, rf.regs_updates),
               !.regs_updates = << >>]

\* a changes() that hands the log over and empties it
RegisterFile_changes_clearing(rf) ==
    [self |-> [rf EXCEPT !.regs_updates = << >>], ret |-> rf.regs_updates]

\* RegisterFile.changes: the RegisterFile afterwards and the list returned
RegisterFile_changes(rf) == [self |-> rf, ret |-> rf.regs_updates]

(***************************************************************************)
(* The register file driven freely: assignments, changes() and commit()    *)
(* in any order.                                                           *)
(***************************************************************************)
VARIABLES
    intreg,      \* State.intreg: the RegisterFile
    pc,          \* State.pc
    phase,       \* where the step loop stands: "execute", "trace", "commit"
                 \* or, after an exception, "raised"
    imm,         \* an Immediate
    lhs,         \* the left operand of a Register operator
    rhs,         \* the right operand of a Register operator
    ret,         \* what the last operation returned (None: the empty list)
    exc,         \* the exception the last operation raised, or "none"
    committed,   \* observer: the register values at the last commit()
    before,      \* observer: the object before the last operation
    op,          \* observer: the last operation and its arguments
    isa_table    \* the instructions the @isa/@isaC decorators have declared

vars ==
    << intreg, pc, phase, imm, lhs, rhs, ret, exc, committed, before, op,
       isa_table >>

\* the immutable registers and their values: x0 = 0
Immutables == (0 :> 0)

\* the values assigned: small, at the signed limits, and beyond the width
AssignedValues ==
    { IntObj(Pow2(XLEN - 1)), IntObj(Pow2(XLEN) + 1),
      Register_set(Register(XLEN), IntObj(-1)) }

Values(rf) == [i \in 0 .. (rf.num - 1) |-> rf.regs[i].value]

RFInit ==
    /\ intreg = RegisterFile(NumRegs, XLEN, Immutables)
    /\ ret = << >>
    /\ committed = Values(intreg)
    /\ before = intreg
    /\ op = [name |-> "init", key |-> -1]
    /\ exc = "none"
    /\ pc = 0 /\ phase = "execute"
    /\ imm = IntObj(0) /\ lhs = IntObj(0) /\ rhs = IntObj(0)
    /\ isa_table = << >>

SetItem ==
    \E key \in 0 .. (NumRegs - 1), value \in AssignedValues :
        /\ Len(intreg.regs_updates) < MaxLog
        /\ intreg' = RegisterFile_setitem(intreg, key, value)
        /\ before' = intreg
        /\ ret' = << >>
        /\ op' = [name |-> "setitem", key |-> key]
        /\ UNCHANGED << committed, exc, pc, phase, imm, lhs, rhs, isa_table >>

Changes ==
    /\ ret' = RegisterFile_changes(intreg).ret
    /\ intreg' = RegisterFile_changes(intreg).self
    /\ before' = intreg
    /\ op' = [name |-> "changes", key |-> -1]
    /\ UNCHANGED << committed, exc, pc, phase, imm, lhs, rhs, isa_table >>

Commit ==
    /\ intreg' = RegisterFile_commit(intreg)
    /\ committed' = Values(intreg')
    /\ before' = intreg
    /\ ret' = << >>
    /\ op' = [name |-> "commit", key |-> -1]
    /\ UNCHANGED << exc, pc, phase, imm, lhs, rhs, isa_table >>

Next == SetItem \/ Changes \/ Commit

Spec == RFInit /\ [][Next]_vars

(***************************************************************************)
(* Claims about the register file.                                         *)
(***************************************************************************)
Indices == 0 .. (NumRegs - 1)

\* C1: between two commits every read rf[j] returns the value register j had
\* at the last commit(), whatever assignments were made since; a pending
\* write is not visible through reads.
C1_ReadsReturnCommitted ==
    \A j \in Indices : RegisterFile_getitem(intreg, j).value = committed[j]

\* a write is pending whose value differs from what a read of its register returns
C1_Witness ==
    /\ op.name = "setitem"
    /\ \E k \in 1 .. Len(intreg.regs_updates) :
          intreg.regs_updates[k].value
              # RegisterFile_getitem(intreg, intreg.regs_updates[k].id).value

\* the positions of the records of log that write index j
WritesTo(log, j) == { k \in 1 .. Len(log) : log[k].id = j }

\* the position of the last record of log that writes index j
LastWriteTo(log, j) ==
    CHOOSE k \in WritesTo(log, j) : \A m \in WritesTo(log, j) : m <= k

\* C2: after commit() every register written in the pending log holds the
\* value of the last record appended for it, every other register is as it
\* was, and the pending log is empty.
C2_CommitAppliesInOrder ==
    op.name = "commit" =>
        /\ intreg.regs_updates = << >>
        /\ \A j \in Indices :
              intreg.regs[j].value =
                  IF WritesTo(before.regs_updates, j) # {}
                  THEN before.regs_updates[LastWriteTo(before.regs_updates, j)].value
                  ELSE before.regs[j].value

\* a commit of a log that wrote one index twice, with different values
C2_Witness ==
    /\ op.name = "commit"
    /\ \E j \in Indices : \E k, m \in WritesTo(before.regs_updates, j) :
          /\ k < m
          /\ before.regs_updates[k].value # before.regs_updates[m].value
          /\ intreg.regs[j].value = before.regs_updates[m].value

\* C3: register 0 is immutable with value 0: an assignment to index 0 appends
\* nothing to the pending log, no pending record names index 0, and index 0
\* reads 0 after any assignments and commits.
C3_ZeroRegister ==
    /\ RegisterFile_getitem(intreg, 0).value = 0
    /\ WritesTo(intreg.regs_updates, 0) = {}
    /\ (op.name = "setitem" /\ op.key = 0) =>
           intreg.regs_updates = before.regs_updates

\* an assignment to index 0 made after a commit that changed another register
C3_Witness ==
    /\ op.name = "setitem" /\ op.key = 0
    /\ \E j \in Indices : committed[j] # 0

(***************************************************************************)
(* An Immediate of any configuration, set and set from bits in any order.  *)
(***************************************************************************)
ImmInit ==
    /\ imm \in { Immediate(bits, signed, lsb0) :
                   bits \in 1 .. MaxImmBits, signed \in BOOLEAN, lsb0 \in BOOLEAN }
    /\ before = imm
    /\ op = [name |-> "init", arg |-> 0]
    /\ exc = "none"
    /\ ret = << >>
    /\ intreg = RegisterFile(NumRegs, XLEN, Immutables)
    /\ committed = Values(intreg)
    /\ pc = 0 /\ phase = "execute"
    /\ lhs = IntObj(0) /\ rhs = IntObj(0)
    /\ isa_table = << >>

\* set(v), for every v from below the least value to above the largest
ImmSet ==
    \E v \in (Immediate_min(imm) - 2) .. (Immediate_max(imm) + 2) :
        /\ imm' = Immediate_set(imm, v).self
        /\ exc' = Immediate_set(imm, v).exc
        /\ before' = imm
        /\ op' = [name |-> "set", arg |-> v]
        /\ UNCHANGED << intreg, pc, phase, lhs, rhs, ret, committed, isa_table >>

\* set_from_bits(r), for every raw pattern r of the Immediate's width
ImmSetFromBits ==
    \E r \in 0 .. (Pow2(imm.bits) - 1) :
        /\ imm' = Immediate_set_from_bits(imm, r).self
        /\ exc' = Immediate_set_from_bits(imm, r).exc
        /\ before' = imm
        /\ op' = [name |-> "set_from_bits", arg |-> r]
        /\ UNCHANGED << intreg, pc, phase, lhs, rhs, ret, committed, isa_table >>

ImmNext == ImmSet \/ ImmSetFromBits

SpecImm == ImmInit /\ [][ImmNext]_vars

\* C5: set(v) with v inside [min(), max()] (and even under lsb0) succeeds and
\* leaves value == v and int(immediate) == v, whatever was set before.
C5_SetInRangeSucceeds ==
    (/\ op.name = "set"
     /\ Immediate_min(before) <= op.arg /\ op.arg <= Immediate_max(before)
     /\ (before.lsb0 => op.arg % 2 = 0))
        => (exc = "none" /\ imm.value = op.arg /\ Immediate_int(imm) = op.arg)

\* the value v is rejected by set(v): odd under lsb0, negative for an
\* unsigned Immediate, or outside [min(), max()]
Invalid(self, v) ==
    \/ self.lsb0 /\ v % 2 = 1
    \/ ~self.signed /\ v < 0
    \/ v < Immediate_min(self) \/ v > Immediate_max(self)

\* C6: set(v) of an invalid v raises InvalidImmediateException and leaves the
\* value as it was; so the value is always within [min(), max()] and even
\* under lsb0.
C6_SetRejectsInvalid ==
    /\ (op.name = "set" /\ Invalid(before, op.arg))
           => (exc = "InvalidImmediateException" /\ imm.value = before.value)
    /\ Immediate_min(imm) <= imm.value /\ imm.value <= Immediate_max(imm)
    /\ imm.lsb0 => imm.value % 2 = 0

\* the two's-complement value of the raw pattern r of width bits
TwosComplement(r, bits) == IF r < Pow2(bits - 1) THEN r ELSE r - Pow2(bits)

\* what set_from_bits(r) is to store
Decoded(self, r) == IF self.signed THEN TwosComplement(r, self.bits) ELSE r

\* C7 as stated: set_from_bits(r) stores the two's-complement value of r in
\* a signed Immediate and r itself in an unsigned one, for every raw r.
C7_SetFromBitsDecodes ==
    op.name = "set_from_bits"
        => (exc = "none" /\ imm.value = Decoded(before, op.arg))

\* C7 amended: the same for an Immediate whose lsb0 is not set.
C7_SetFromBitsDecodesNoLsb0 ==
    (op.name = "set_from_bits" /\ ~before.lsb0)
        => (exc = "none" /\ imm.value = Decoded(before, op.arg))

\* a signed Immediate without lsb0 was set from a pattern with the sign bit
\* set, over an earlier value, and holds the negative value
C7_Witness ==
    /\ op.name = "set_from_bits" /\ before.signed /\ ~before.lsb0
    /\ op.arg >= Pow2(before.bits - 1)
    /\ before.value > 0
    /\ imm.value = op.arg - Pow2(before.bits) /\ imm.value < 0

(***************************************************************************)
(* The Register operators, applied to operands of every kind.              *)
(***************************************************************************)
\* a Register of the given width holding v
RegisterOf(bits, v) == Register_set(Register(bits), IntObj(v))

\* left operands: Registers at the limits of the width and around zero
LeftOperands ==
    { RegisterOf(XLEN, v) :
        v \in { -Pow2(XLEN - 1), -3, -1, 0, 1, 5, Pow2(XLEN - 1) - 1 } }

\* right operands: ints, Registers (also of another width) and Immediates
RightOperands ==
    { IntObj(n) : n \in { -Pow2(XLEN), -1, 0, 1, 3, XLEN + 1 } }
        \cup { RegisterOf(XLEN, v) : v \in { -1, 2, Pow2(XLEN - 1) - 1 } }
        \cup { RegisterOf(XLEN + 1, Pow2(XLEN - 1)) }
        \cup { Immediate_set(Immediate(3, TRUE, FALSE), v).self : v \in { -3, 2 } }

RegInit ==
    /\ lhs \in LeftOperands
    /\ rhs \in RightOperands
    /\ ret = << >>
    /\ exc = "none"
    /\ op = [name |-> "init"]
    /\ before = [lhs |-> lhs, rhs |-> rhs]
    /\ intreg = RegisterFile(NumRegs, XLEN, Immutables)
    /\ committed = Values(intreg)
    /\ pc = 0 /\ phase = "execute"
    /\ imm = IntObj(0)
    /\ isa_table = << >>

\* new = lhs <operator> rhs, or the exception it raises
Apply(name, r) ==
    /\ op' = [name |-> name]
    /\ before' = [lhs |-> lhs, rhs |-> rhs]
    /\ IF r.kind = "exception"
       THEN exc' = r.type /\ ret' = << >>
       ELSE exc' = "none" /\ ret' = r
    /\ UNCHANGED << lhs, rhs, intreg, pc, phase, imm, committed, isa_table >>

RegAdd == Apply("add", Register_add(lhs, rhs))
RegSub == Apply("sub", Register_sub(lhs, rhs))
RegAnd == Apply("and", Register_and(lhs, rhs))
RegOr == Apply("or", Register_or(lhs, rhs))
RegXor == Apply("xor", Register_xor(lhs, rhs))
RegLshift == rhs.value <= MaxShl /\ Apply("lshift", Register_lshift(lhs, rhs))
RegRshift == Apply("rshift", Register_rshift(lhs, rhs))

\* lhs == other, other being lhs itself or the distinct object rhs
RegEq ==
    \E same_object \in BOOLEAN :
        LET other == IF same_object THEN lhs ELSE rhs
        IN  /\ op' = [name |-> "eq"]
            /\ before' = [lhs |-> lhs, rhs |-> other, same_object |-> same_object]
            /\ ret' = [kind |-> "bool", value |-> Register_eq(lhs, other, same_object)]
            /\ exc' = "none"
            /\ UNCHANGED << lhs, rhs, intreg, pc, phase, imm, committed, isa_table >>

\* the caller takes other operands
RegOperands ==
    /\ lhs' \in LeftOperands
    /\ rhs' \in RightOperands
    /\ ret' = << >> /\ exc' = "none"
    /\ op' = [name |-> "init"]
    /\ before' = [lhs |-> lhs', rhs |-> rhs']
    /\ UNCHANGED << intreg, pc, phase, imm, committed, isa_table >>

RegNext ==
    \/ RegAdd \/ RegSub \/ RegAnd \/ RegOr \/ RegXor \/ RegLshift \/ RegRshift
    \/ RegEq \/ RegOperands

SpecReg == RegInit /\ [][RegNext]_vars

\* v lies in the two's-complement range of the width
InRange(v, bits) == -Pow2(bits - 1) <= v /\ v <= Pow2(bits - 1) - 1

\* the result of the operator on unbounded integers
Unbounded(name, a, b) ==
    CASE name = "add" -> a + b
      [] name = "sub" -> a - b
      [] name = "and" -> BitAnd(a, b)
      [] name = "or" -> BitOr(a, b)
      [] name = "xor" -> BitXor(a, b)
      [] name = "lshift" -> Shl(a, b)

\* C8: each of a+b, a-b, a&b, a|b, a^b, a<<b returns, for any right operand,
\* a new Register of a's width whose value is in the two's-complement range
\* and congruent modulo 2^bits to the unbounded result, with a and b left as
\* they were; (2^(bits-1)-1) + 1 is -2^(bits-1), unsigned 2^(bits-1).
C8_OperatorsWrap ==
    op.name \in { "add", "sub", "and", "or", "xor", "lshift" } =>
        /\ exc = "none"
        /\ ret.kind = "Register" /\ ret.bits = lhs.bits
        /\ InRange(ret.value, lhs.bits)
        /\ (ret.value - Unbounded(op.name, lhs.value, rhs.value)) % Pow2(lhs.bits) = 0
        /\ lhs = before.lhs /\ rhs = before.rhs
        /\ (op.name = "add" /\ lhs.value = Pow2(lhs.bits - 1) - 1 /\ int(rhs) = 1)
               => (/\ ret.value = -Pow2(lhs.bits - 1)
                   /\ Register_unsigned(ret) = Pow2(lhs.bits - 1))

\* C13: two Registers are equal (a == b) exactly when they have the same
\* width and the same value, whether or not they are one object; Registers
\* of different widths are never equal.
C13_EqualityByWidthAndValue ==
    (op.name = "eq" /\ before.rhs.kind = "Register") =>
        (ret.value <=> (/\ before.lhs.bits = before.rhs.bits
                        /\ before.lhs.value = before.rhs.value))

(***************************************************************************)
(* Instructions (isa.py). Each execute reads the State (intreg, pc) and     *)
(* returns what it stages: the State's pc afterwards and the value         *)
(* assigned to intreg[rd], or the exception raised before any assignment.  *)
(***************************************************************************)
\* the immediate of a J-type instruction: 21 bits, signed, lsb0
JImmediate(v) == Immediate_set(Immediate(21, TRUE, TRUE), v).self

\* the shift amount of an I-type shift: 5 bits, unsigned
Shamt(v) == Immediate_set(Immediate(5, FALSE, FALSE), v).self

\* the mask sll applies to rs2
ShamtMask == 31

\* the size of a base instruction
InsnSize == 4

\* an execute that assigns value to intreg[rd] and sets pc
Effect(value, newpc) == [kind |-> "effect", value |-> value, pc |-> newpc]

\* an execute that assigns nothing and sets pc
Jump(newpc) == [kind |-> "jump", pc |-> newpc]

\* an execute that read data at addr from the memory interface, assigns
\* value to intreg[rd] and leaves pc
Loaded(value, newpc, addr, data) ==
    [kind |-> "load", value |-> value, pc |-> newpc, addr |-> addr, data |-> data]

\* the accesses to the memory interface an execute made
Access(e) ==
    IF e.kind = "load" THEN << [addr |-> e.addr, data |-> e.data] >> ELSE << >>

\* a jal that adds the immediate to pc
InstructionJAL_relative(model, rd, i) ==
    Effect(IntObj(model.pc + InsnSize), model.pc + Immediate_int(i))

\* InstructionJAL.execute
InstructionJAL_execute(model, rd, i) ==
    Effect(IntObj(model.pc + InsnSize), Immediate_int(i))

\* the effect of an execute that assigns r to intreg[rd], r a Register or an
\* exception raised while it was computed
Assign(model, r) ==
    IF r.kind = "exception" THEN r ELSE Effect(r, model.pc)

\* InstructionADD.execute
InstructionADD_execute(model, rd, rs1, rs2) ==
    Assign(model, Register_add(RegisterFile_getitem(model.intreg, rs1),
                               RegisterFile_getitem(model.intreg, rs2)))

\* InstructionSUB.execute
InstructionSUB_execute(model, rd, rs1, rs2) ==
    Assign(model, Register_sub(RegisterFile_getitem(model.intreg, rs1),
                               RegisterFile_getitem(model.intreg, rs2)))

\* the shift count of sll: intreg[rs2] & 0x1f
SLLCount(model, rs2) ==
    Register_and(RegisterFile_getitem(model.intreg, rs2), IntObj(ShamtMask))

\* InstructionSLL.execute
InstructionSLL_execute(model, rd, rs1, rs2) ==
    Assign(model, Register_lshift(RegisterFile_getitem(model.intreg, rs1),
                                  SLLCount(model, rs2)))

\* InstructionSRL.execute
InstructionSRL_execute(model, rd, rs1, rs2) ==
    Assign(model, Register_rshift(RegisterFile_getitem(model.intreg, rs1),
                                  RegisterFile_getitem(model.intreg, rs2)))

\* InstructionSRA.execute
InstructionSRA_execute(model, rd, rs1, rs2) ==
    Assign(model, Register_rshift(RegisterFile_getitem(model.intreg, rs1),
                                  RegisterFile_getitem(model.intreg, rs2)))

\* InstructionSLLI.execute
InstructionSLLI_execute(model, rd, rs1, shamt) ==
    Assign(model, Register_lshift(RegisterFile_getitem(model.intreg, rs1), shamt))

\* InstructionSRLI.execute: an int, intreg[rs1].unsigned() >> int(shamt)
InstructionSRLI_execute(model, rd, rs1, shamt) ==
    Assign(model, IntObj(Shr(Register_unsigned(RegisterFile_getitem(model.intreg, rs1)),
                             Immediate_int(shamt))))

\* InstructionSRAI.execute
InstructionSRAI_execute(model, rd, rs1, shamt) ==
    Assign(model, Register_rshift(RegisterFile_getitem(model.intreg, rs1), shamt))

(***************************************************************************)
(* The step loop: execute, then changes() for the trace, then commit().    *)
(***************************************************************************)
\* the registers the instructions name
Sources == { 1, 2 }
Destinations == { 0, 1 }

\* the contents the registers start with
StartValues == { -Pow2(XLEN - 1), -1, 3 }

\* where the program counter starts
StartPCs == { 0 }

\* the offsets of the jumps
JumpOffsets == { 4, 8 }

\* the shift amounts of the immediate shifts
ShiftAmounts == { 1, XLEN + 1 }

\* the State as the instructions read it
State == [intreg |-> intreg, pc |-> pc]

StepInit ==
    /\ \E v1, v2 \in StartValues :
          intreg = RegisterFile_commit(
                       RegisterFile_setitem(
                           RegisterFile_setitem(
                               RegisterFile(NumRegs, XLEN, Immutables), 1, IntObj(v1)),
                           2, IntObj(v2)))
    /\ pc \in StartPCs
    /\ phase = "execute"
    /\ committed = Values(intreg)
    /\ before = [intreg |-> intreg, pc |-> pc]
    /\ op = [name |-> "init", rd |-> 0, rs1 |-> 0, rs2 |-> 0, imm |-> 0,
             mem |-> << >>]
    /\ ret = << >>
    /\ exc = "none"
    /\ imm = IntObj(0) /\ lhs = IntObj(0) /\ rhs = IntObj(0)
    /\ isa_table = << >>

\* one instruction executed: its assignment staged (none for a branch) and
\* pc set, or the exception raised, which ends the run
Execute(name, rd, rs1, rs2, i, e) ==
    /\ phase = "execute"
    /\ op' = [name |-> name, rd |-> rd, rs1 |-> rs1, rs2 |-> rs2, imm |-> i,
              mem |-> Access(e)]
    /\ before' = [intreg |-> intreg, pc |-> pc]
    /\ ret' = << >>
    /\ IF e.kind = "exception"
       THEN /\ exc' = e.type
            /\ phase' = "raised"
            /\ UNCHANGED << intreg, pc >>
       ELSE /\ exc' = "none"
            /\ intreg' = IF e.kind = "jump"
                         THEN intreg
                         ELSE RegisterFile_setitem(intreg, rd, e.value)
            /\ pc' = e.pc
            /\ phase' = "trace"
    /\ UNCHANGED << committed, imm, lhs, rhs, isa_table >>

JAL ==
    \E rd \in Destinations, i \in JumpOffsets :
        Execute("jal", rd, 0, 0, i, InstructionJAL_execute(State, rd, JImmediate(i)))

ADD ==
    \E rd \in Destinations, rs1 \in Sources, rs2 \in Sources :
        Execute("add", rd, rs1, rs2, 0, InstructionADD_execute(State, rd, rs1, rs2))

SUB ==
    \E rd \in Destinations, rs1 \in Sources, rs2 \in Sources :
        Execute("sub", rd, rs1, rs2, 0, InstructionSUB_execute(State, rd, rs1, rs2))

SLL ==
    \E rd \in Destinations, rs1 \in Sources, rs2 \in Sources :
        /\ SLLCount(State, rs2).value <= MaxShl
        /\ Execute("sll", rd, rs1, rs2, 0, InstructionSLL_execute(State, rd, rs1, rs2))

SRL ==
    \E rd \in Destinations, rs1 \in Sources, rs2 \in Sources :
        Execute("srl", rd, rs1, rs2, 0, InstructionSRL_execute(State, rd, rs1, rs2))

SRA ==
    \E rd \in Destinations, rs1 \in Sources, rs2 \in Sources :
        Execute("sra", rd, rs1, rs2, 0, InstructionSRA_execute(State, rd, rs1, rs2))

SLLI ==
    \E rd \in Destinations, rs1 \in Sources, sh \in ShiftAmounts :
        Execute("slli", rd, rs1, 0, sh, InstructionSLLI_execute(State, rd, rs1, Shamt(sh)))

SRLI ==
    \E rd \in Destinations, rs1 \in Sources, sh \in ShiftAmounts :
        Execute("srli", rd, rs1, 0, sh, InstructionSRLI_execute(State, rd, rs1, Shamt(sh)))

SRAI ==
    \E rd \in Destinations, rs1 \in Sources, sh \in ShiftAmounts :
        Execute("srai", rd, rs1, 0, sh, InstructionSRAI_execute(State, rd, rs1, Shamt(sh)))

\* the trace is taken: changes()
StepChanges ==
    /\ phase = "trace"
    /\ ret' = RegisterFile_changes(intreg).ret
    /\ intreg' = RegisterFile_changes(intreg).self
    /\ phase' = "commit"
    /\ UNCHANGED << pc, exc, committed, before, op, imm, lhs, rhs, isa_table >>

\* the step ends: commit()
StepCommit ==
    /\ phase = "commit"
    /\ intreg' = RegisterFile_commit(intreg)
    /\ committed' = Values(intreg')
    /\ phase' = "execute"
    /\ before' = [intreg |-> intreg', pc |-> pc]
    /\ op' = [name |-> "commit", rd |-> 0, rs1 |-> 0, rs2 |-> 0, imm |-> 0,
              mem |-> << >>]
    /\ ret' = << >>
    /\ UNCHANGED << pc, exc, imm, lhs, rhs, isa_table >>

StepNext ==
    \/ JAL \/ ADD \/ SUB \/ SLL \/ SRL \/ SRA \/ SLLI \/ SRLI \/ SRAI
    \/ StepChanges \/ StepCommit

SpecStep == StepInit /\ [][StepNext]_vars

(***************************************************************************)
(* Claims about the step loop and the instructions.                        *)
(***************************************************************************)
\* C4: in a step execute, changes(), commit(), changes() returns exactly the
\* writes the step's instruction staged (one record for rd, none when rd is
\* immutable), nothing an earlier step staged, and leaves the pending log
\* and the live registers as they were.
C4_ChangesOfThisStep ==
    phase = "commit" =>
        /\ intreg.regs = before.intreg.regs
        /\ intreg.regs_updates = before.intreg.regs_updates \o ret
        /\ Len(ret) = (IF before.intreg.regs[op.rd].immutable THEN 0 ELSE 1)
        /\ \A k \in 1 .. Len(ret) : ret[k].id = op.rd

\* changes() returned the write of a step that follows a step which
\* committed another value to the same register
C4_Witness ==
    /\ phase = "commit"
    /\ Len(ret) = 1 /\ ret[1].id = 1
    /\ committed[1] \notin StartValues
    /\ ret[1].value # committed[1]

\* C9: jal rd, imm at pc = p stages rd = p + 4 and sets pc to p + imm.
C9_JalLinksAndJumps ==
    (phase = "trace" /\ op.name = "jal") =>
        /\ pc = before.pc + op.imm
        /\ (~before.intreg.regs[op.rd].immutable /\ InRange(before.pc + 4, XLEN))
               => intreg.regs_updates = << [id |-> op.rd, value |-> before.pc + 4] >>

ArithmeticAndShifts == { "add", "sub", "sll", "srl", "sra", "slli", "srli", "srai" }

\* C10: add, sub, sll, srl, sra, slli, srli, srai raise no error, whatever
\* the source registers hold, and stage for rd a value within the
\* two's-complement range of the register width.
C10_ArithmeticNeverFails ==
    op.name \in ArithmeticAndShifts =>
        /\ exc = "none"
        /\ (phase = "trace" /\ ~before.intreg.regs[op.rd].immutable)
               => /\ Len(intreg.regs_updates) = 1
                  /\ intreg.regs_updates[1].id = op.rd
                  /\ InRange(intreg.regs_updates[1].value, XLEN)

\* v / 2^n rounded down, for n >= 0
FloorShift(v, n) ==
    IF n > MaxShl THEN (IF v < 0 THEN -1 ELSE 0) ELSE v \div Pow2(n)

\* the shift amount of a right shift: the contents of rs2, or the immediate
ShiftAmount(o, model) ==
    IF o.name \in { "srl", "sra" } THEN model.intreg.regs[o.rs2].value ELSE o.imm

\* C15: srl and srli stage rd = unsigned(rs1) shifted right, zeros coming
\* in; sra and srai stage rd = rs1 shifted right, the sign coming in.  For
\* rs1 negative and a shift of at least 1, what srl and srli stage is not
\* negative and is not what the arithmetic shift gives.
C15_LogicalVsArithmetic ==
    (/\ phase = "trace"
     /\ op.name \in { "srl", "srli", "sra", "srai" }
     /\ ~before.intreg.regs[op.rd].immutable) =>
        LET a == before.intreg.regs[op.rs1].value
            n == ShiftAmount(op, before)
            staged == intreg.regs_updates[1].value
        IN  /\ Len(intreg.regs_updates) = 1
            /\ intreg.regs_updates[1].id = op.rd
            /\ IF op.name \in { "srl", "srli" }
               THEN /\ (staged - FloorShift(a % Pow2(XLEN), n)) % Pow2(XLEN) = 0
                    /\ (a < 0 /\ n >= 1) => (staged >= 0 /\ staged # FloorShift(a, n))
               ELSE staged = FloorShift(a, n)

(***************************************************************************)
(* Branches.  A branch assigns no register; it adds its immediate to pc    *)
(* when its condition holds.                                               *)
(***************************************************************************)
\* the immediate of a B-type instruction: 13 bits, signed, lsb0
BImmediate(v) == Immediate_set(Immediate(13, TRUE, TRUE), v).self

\* if taken: model.pc = model.pc + self.imm
Branch(model, taken, i) ==
    Jump(IF taken THEN model.pc + Immediate_int(i) ELSE model.pc)

\* InstructionBEQ.execute
InstructionBEQ_execute(model, rs1, rs2, i) ==
    Branch(model, RegisterFile_getitem(model.intreg, rs1).value
                      = RegisterFile_getitem(model.intreg, rs2).value, i)

\* InstructionBNE.execute
InstructionBNE_execute(model, rs1, rs2, i) ==
    Branch(model, RegisterFile_getitem(model.intreg, rs1).value
                      # RegisterFile_getitem(model.intreg, rs2).value, i)

\* InstructionBLT.execute
InstructionBLT_execute(model, rs1, rs2, i) ==
    Branch(model, RegisterFile_getitem(model.intreg, rs1).value
                      < RegisterFile_getitem(model.intreg, rs2).value, i)

\* InstructionBGE.execute
InstructionBGE_execute(model, rs1, rs2, i) ==
    Branch(model, RegisterFile_getitem(model.intreg, rs1).value
                      >= RegisterFile_getitem(model.intreg, rs2).value, i)

\* a bltu that compares the signed values
InstructionBLTU_signed(model, rs1, rs2, i) ==
    Branch(model, RegisterFile_getitem(model.intreg, rs1).value
                      < RegisterFile_getitem(model.intreg, rs2).value, i)

\* InstructionBLTU.execute
InstructionBLTU_execute(model, rs1, rs2, i) ==
    Branch(model, Register_unsigned(RegisterFile_getitem(model.intreg, rs1))
                      < Register_unsigned(RegisterFile_getitem(model.intreg, rs2)), i)

\* InstructionBGEU.execute
InstructionBGEU_execute(model, rs1, rs2, i) ==
    Branch(model, Register_unsigned(RegisterFile_getitem(model.intreg, rs1))
                      >= Register_unsigned(RegisterFile_getitem(model.intreg, rs2)), i)

(***************************************************************************)
(* Loads.  The widths the loads name (8, 16 and 32 bits: data >> 7,        *)
(* 0xFFFFFF00, ...) and the 32 and 64 bits of the variants' registers are  *)
(* modelled at a quarter of their size, so that 2^bits stays an integer    *)
(* TLC can hold.  The memory interface is external: what it returns is an  *)
(* input of the execute.                                                   *)
(***************************************************************************)
\* the bits of a byte, a halfword and a word
ByteBits == 2
HalfBits == 4
WordBits == 8

\* the register widths of the variants: a word, and two words
XLENs == { WordBits, 2 * WordBits }

\* the immediate of an I-type instruction: 12 bits, signed
IImmediate(v) == Immediate_set(Immediate(12, TRUE, FALSE), v).self

\* the address of a load: (model.intreg[rs1] + self.imm).unsigned()
LoadAddress(model, rs1, i) ==
    Register_unsigned(Register_add(RegisterFile_getitem(model.intreg, rs1), i))

\* if (data >> (n - 1)) & 0x1: data |= the bits n .. 31 (0xFFFFFF00 for n = 8)
SignExtendWord(data, n) ==
    IF BitAnd(Shr(data, n - 1), 1) # 0
    THEN BitOr(data, Pow2(WordBits) - Pow2(n))
    ELSE data

\* InstructionLB.execute, model.lb returning data
InstructionLB_execute(model, rd, rs1, i, data) ==
    Loaded(IntObj(SignExtendWord(data, ByteBits)), model.pc,
           LoadAddress(model, rs1, i), data)

\* InstructionLH.execute, model.lh returning data
InstructionLH_execute(model, rd, rs1, i, data) ==
    Loaded(IntObj(SignExtendWord(data, HalfBits)), model.pc,
           LoadAddress(model, rs1, i), data)

\* InstructionLW.execute, model.lw returning data
InstructionLW_execute(model, rd, rs1, i, data) ==
    Loaded(IntObj(data), model.pc, LoadAddress(model, rs1, i), data)

\* InstructionLBU.execute, model.lb returning data
InstructionLBU_execute(model, rd, rs1, i, data) ==
    Loaded(IntObj(data), model.pc, LoadAddress(model, rs1, i), data)

\* InstructionLHU.execute, model.lh returning data
InstructionLHU_execute(model, rd, rs1, i, data) ==
    Loaded(IntObj(data), model.pc, LoadAddress(model, rs1, i), data)

(***************************************************************************)
(* Comparisons: rd = 1 if the condition holds, else rd = 0.                *)
(***************************************************************************)
\* if <condition>: model.intreg[rd] = 1 else: model.intreg[rd] = 0
SetIf(model, condition) == Effect(IntObj(IF condition THEN 1 ELSE 0), model.pc)

\* InstructionSLTI.execute
InstructionSLTI_execute(model, rd, rs1, i) ==
    SetIf(model, Register_lt(RegisterFile_getitem(model.intreg, rs1), i))

\* InstructionSLTIU.execute
InstructionSLTIU_execute(model, rd, rs1, i) ==
    SetIf(model, Register_unsigned(RegisterFile_getitem(model.intreg, rs1))
                     < Immediate_int(i))

\* InstructionSLT.execute
InstructionSLT_execute(model, rd, rs1, rs2) ==
    SetIf(model, Register_lt(RegisterFile_getitem(model.intreg, rs1),
                             RegisterFile_getitem(model.intreg, rs2)))

\* InstructionSLTU.execute
InstructionSLTU_execute(model, rd, rs1, rs2) ==
    SetIf(model, Register_unsigned(RegisterFile_getitem(model.intreg, rs1))
                     < Register_unsigned(RegisterFile_getitem(model.intreg, rs2)))

(***************************************************************************)
(* The step loop over the branches, the loads and the comparisons, with    *)
(* registers of either variant's width.                                    *)
(***************************************************************************)

\* the farthest the branches take pc
MaxPC == 8

\* the offsets of the branches
BranchOffsets == { -8, 8 }

\* the contents the registers start with, for registers of the given width
ExecValues(bits) == { -Pow2(bits - 1), -1, 3 }

ExecInit ==
    /\ \E bits \in XLENs :
          \E v1, v2 \in ExecValues(bits) :
              intreg = RegisterFile_commit(
                           RegisterFile_setitem(
                               RegisterFile_setitem(
                                   RegisterFile(NumRegs, bits, Immutables), 1, IntObj(v1)),
                               2, IntObj(v2)))
    /\ pc \in StartPCs
    /\ phase = "execute"
    /\ committed = Values(intreg)
    /\ before = [intreg |-> intreg, pc |-> pc]
    /\ op = [name |-> "init", rd |-> 0, rs1 |-> 0, rs2 |-> 0, imm |-> 0,
             mem |-> << >>]
    /\ ret = << >>
    /\ exc = "none"
    /\ imm = IntObj(0) /\ lhs = IntObj(0) /\ rhs = IntObj(0)
    /\ isa_table = << >>

\* a branch executed, pc staying within MaxPC of the start
ExecuteBranch(name, rs1, rs2, i, e) ==
    /\ e.pc \in (-MaxPC) .. MaxPC
    /\ Execute(name, 0, rs1, rs2, i, e)

BEQ ==
    \E rs1 \in Sources, rs2 \in Sources, i \in BranchOffsets :
        ExecuteBranch("beq", rs1, rs2, i,
                      InstructionBEQ_execute(State, rs1, rs2, BImmediate(i)))

BNE ==
    \E rs1 \in Sources, rs2 \in Sources, i \in BranchOffsets :
        ExecuteBranch("bne", rs1, rs2, i,
                      InstructionBNE_execute(State, rs1, rs2, BImmediate(i)))

BLT ==
    \E rs1 \in Sources, rs2 \in Sources, i \in BranchOffsets :
        ExecuteBranch("blt", rs1, rs2, i,
                      InstructionBLT_execute(State, rs1, rs2, BImmediate(i)))

BGE ==
    \E rs1 \in Sources, rs2 \in Sources, i \in BranchOffsets :
        ExecuteBranch("bge", rs1, rs2, i,
                      InstructionBGE_execute(State, rs1, rs2, BImmediate(i)))

BLTU ==
    \E rs1 \in Sources, rs2 \in Sources, i \in BranchOffsets :
        ExecuteBranch("bltu", rs1, rs2, i,
                      InstructionBLTU_execute(State, rs1, rs2, BImmediate(i)))

BGEU ==
    \E rs1 \in Sources, rs2 \in Sources, i \in BranchOffsets :
        ExecuteBranch("bgeu", rs1, rs2, i,
                      InstructionBGEU_execute(State, rs1, rs2, BImmediate(i)))

\* the offsets of the loads
LoadOffsets == { -1, 4 }

\* what the memory interface returns for n bits: the unsigned values on
\* either side of the sign bit, and the largest
Data(n) == { Pow2(n - 1) - 1, Pow2(n - 1), Pow2(n) - 1 }

LB ==
    \E rd \in Destinations, rs1 \in Sources, i \in LoadOffsets, data \in Data(ByteBits) :
        Execute("lb", rd, rs1, 0, i,
                InstructionLB_execute(State, rd, rs1, IImmediate(i), data))

LH ==
    \E rd \in Destinations, rs1 \in Sources, i \in LoadOffsets, data \in Data(HalfBits) :
        Execute("lh", rd, rs1, 0, i,
                InstructionLH_execute(State, rd, rs1, IImmediate(i), data))

LW ==
    \E rd \in Destinations, rs1 \in Sources, i \in LoadOffsets, data \in Data(WordBits) :
        Execute("lw", rd, rs1, 0, i,
                InstructionLW_execute(State, rd, rs1, IImmediate(i), data))

LBU ==
    \E rd \in Destinations, rs1 \in Sources, i \in LoadOffsets, data \in Data(ByteBits) :
        Execute("lbu", rd, rs1, 0, i,
                InstructionLBU_execute(State, rd, rs1, IImmediate(i), data))

LHU ==
    \E rd \in Destinations, rs1 \in Sources, i \in LoadOffsets, data \in Data(HalfBits) :
        Execute("lhu", rd, rs1, 0, i,
                InstructionLHU_execute(State, rd, rs1, IImmediate(i), data))

\* the immediates of the comparisons
CompareImmediates == { -1, 4 }

SLTI ==
    \E rd \in Destinations, rs1 \in Sources, i \in CompareImmediates :
        Execute("slti", rd, rs1, 0, i,
                InstructionSLTI_execute(State, rd, rs1, IImmediate(i)))

SLTIU ==
    \E rd \in Destinations, rs1 \in Sources, i \in CompareImmediates :
        Execute("sltiu", rd, rs1, 0, i,
                InstructionSLTIU_execute(State, rd, rs1, IImmediate(i)))

SLT ==
    \E rd \in Destinations, rs1 \in Sources, rs2 \in Sources :
        Execute("slt", rd, rs1, rs2, 0, InstructionSLT_execute(State, rd, rs1, rs2))

SLTU ==
    \E rd \in Destinations, rs1 \in Sources, rs2 \in Sources :
        Execute("sltu", rd, rs1, rs2, 0, InstructionSLTU_execute(State, rd, rs1, rs2))

ExecNext ==
    \/ BEQ \/ BNE \/ BLT \/ BGE \/ BLTU \/ BGEU
    \/ LB \/ LH \/ LW \/ LBU \/ LHU
    \/ SLTI \/ SLTIU \/ SLT \/ SLTU
    \/ StepChanges \/ StepCommit

SpecExec == ExecInit /\ [][ExecNext]_vars

(***************************************************************************)
(* Claims about the branches.                                              *)
(***************************************************************************)
Branches == { "beq", "bne", "blt", "bge", "bltu", "bgeu" }

\* the register's contents as an unsigned value of the register width
UnsignedOf(model, r) == model.intreg.regs[r].value % Pow2(model.intreg.bits)

\* the condition of the branch name on the registers rs1 and rs2 of model
ConditionHolds(name, model, rs1, rs2) ==
    LET a == model.intreg.regs[rs1].value
        b == model.intreg.regs[rs2].value
        ua == UnsignedOf(model, rs1)
        ub == UnsignedOf(model, rs2)
    IN  CASE name = "beq" -> a = b
          [] name = "bne" -> a # b
          [] name = "blt" -> a < b
          [] name = "bge" -> a >= b
          [] name = "bltu" -> ua < ub
          [] name = "bgeu" -> ua >= ub

\* C11: a branch executed at pc = p sets pc to p + imm when its condition
\* holds (equality for beq/bne, signed order for blt/bge, unsigned order of
\* the register width for bltu/bgeu) and leaves pc at p otherwise; either
\* way it raises nothing and stages no register write.
C11_BranchesCompareAndJump ==
    op.name \in Branches =>
        /\ exc = "none"
        /\ phase \in { "trace", "commit" } =>
              /\ pc = (IF ConditionHolds(op.name, before, op.rs1, op.rs2)
                       THEN before.pc + op.imm
                       ELSE before.pc)
              /\ intreg = before.intreg
              /\ intreg.regs_updates = << >>

\* bltu is taken where blt would not be: rs1 = 3 is below rs2 = -1 unsigned
C11_Witness ==
    /\ phase = "trace" /\ op.name = "bltu"
    /\ before.intreg.regs[op.rs1].value = 3
    /\ before.intreg.regs[op.rs2].value = -1
    /\ pc = before.pc + op.imm /\ pc # before.pc

(***************************************************************************)
(* Claims about the loads.                                                 *)
(***************************************************************************)
Loads == { "lb", "lh", "lw", "lbu", "lhu" }

\* the n-bit unsigned value d read as a two's-complement number
SignExtended(d, n) == IF d >= Pow2(n - 1) THEN d - Pow2(n) ELSE d

\* what a load stages for data read from memory
Extended(name, data) ==
    CASE name = "lb" -> SignExtended(data, ByteBits)
      [] name = "lh" -> SignExtended(data, HalfBits)
      [] name = "lbu" -> data
      [] name = "lhu" -> data

\* C12: a load reads the memory interface once, at rs1 + imm taken as an
\* unsigned value of the register width (so at least 0 and below 2^bits),
\* and stages in rd the byte/halfword sign-extended to the register width
\* (lb, lh) or zero-extended (lbu, lhu), or the word read (lw).
C12_LoadsExtend ==
    (phase = "trace" /\ op.name \in Loads) =>
        LET bits == before.intreg.bits
            rs1 == before.intreg.regs[op.rs1].value
        IN  /\ exc = "none"
            /\ Len(op.mem) = 1
            /\ op.mem[1].addr = (rs1 + op.imm) % Pow2(bits)
            /\ op.mem[1].addr >= 0 /\ op.mem[1].addr < Pow2(bits)
            /\ ~before.intreg.regs[op.rd].immutable =>
                  /\ Len(intreg.regs_updates) = 1
                  /\ intreg.regs_updates[1].id = op.rd
                  /\ IF op.name = "lw"
                     THEN intreg.regs_updates[1].value % Pow2(WordBits) = op.mem[1].data
                     ELSE intreg.regs_updates[1].value = Extended(op.name, op.mem[1].data)

(***************************************************************************)
(* Claims about the comparisons.                                           *)
(***************************************************************************)
Comparisons == { "slt", "slti", "sltu", "sltiu" }

\* whether rs1 is less than the second operand of the comparison name
IsLess(name, model, rs1, rs2, i) ==
    CASE name = "slt" -> model.intreg.regs[rs1].value < model.intreg.regs[rs2].value
      [] name = "slti" -> model.intreg.regs[rs1].value < i
      [] name = "sltu" -> UnsignedOf(model, rs1) < UnsignedOf(model, rs2)
      [] name = "sltiu" -> UnsignedOf(model, rs1) < i % Pow2(model.intreg.bits)

\* C14: slt and slti stage rd = 1 exactly when rs1 is below rs2, or the
\* immediate, as signed values; sltu and sltiu exactly when it is below as
\* unsigned values of the register width, the sign-extended immediate of
\* sltiu read as unsigned; otherwise they stage rd = 0.
C14_SetLessThan ==
    (phase = "trace" /\ op.name \in Comparisons) =>
        /\ exc = "none"
        /\ ~before.intreg.regs[op.rd].immutable =>
              intreg.regs_updates =
                  << [id |-> op.rd,
                      value |-> IF IsLess(op.name, before, op.rs1, op.rs2, op.imm)
                                THEN 1 ELSE 0] >>

(***************************************************************************)
(* The instruction declarations.  Importing the module applies the @isa    *)
(* and @isaC decorators in file order; each declares an instruction under  *)
(* its dispatch key.  A decode looks a word's key up among them.           *)
(***************************************************************************)
\* a selector the decorator call leaves out
None == -1

\* the decorator calls, in file order, with their line
Declarations ==
    << [line |-> 5, isa |-> "isa", mnemonic |-> "lui", variant |-> "RV32I",
        opcode |-> 55, funct3 |-> None, funct7 |-> None, funct4 |-> None, funct6 |-> None],
       [line |-> 16, isa |-> "isa", mnemonic |-> "auipc", variant |-> "RV32I",
        opcode |-> 23, funct3 |-> None, funct7 |-> None, funct4 |-> None, funct6 |-> None],
       [line |-> 22, isa |-> "isa", mnemonic |-> "jal", variant |-> "RV32I",
        opcode |-> 111, funct3 |-> None, funct7 |-> None, funct4 |-> None, funct6 |-> None],
       [line |-> 29, isa |-> "isa", mnemonic |-> "jalr", variant |-> "RV32I",
        opcode |-> 103, funct3 |-> 0, funct7 |-> None, funct4 |-> None, funct6 |-> None],
       [line |-> 36, isa |-> "isa", mnemonic |-> "beq", variant |-> "RV32I",
        opcode |-> 99, funct3 |-> 0, funct7 |-> None, funct4 |-> None, funct6 |-> None],
       [line |-> 44, isa |-> "isa", mnemonic |-> "bne", variant |-> "RV32I",
        opcode |-> 99, funct3 |-> 1, funct7 |-> None, funct4 |-> None, funct6 |-> None],
       [line |-> 51, isa |-> "isa", mnemonic |-> "blt", variant |-> "RV32I",
        opcode |-> 99, funct3 |-> 4, funct7 |-> None, funct4 |-> None, funct6 |-> None],
       [line |-> 58, isa |-> "isa", mnemonic |-> "bge", variant |-> "RV32I",
        opcode |-> 99, funct3 |-> 5, funct7 |-> None, funct4 |-> None, funct6 |-> None],
       [line |-> 65, isa |-> "isa", mnemonic |-> "bltu", variant |-> "RV32I",
        opcode |-> 99, funct3 |-> 6, funct7 |-> None, funct4 |-> None, funct6 |-> None],
       [line |-> 72, isa |-> "isa", mnemonic |-> "bgeu", variant |-> "RV32I",
        opcode |-> 99, funct3 |-> 7, funct7 |-> None, funct4 |-> None, funct6 |-> None],
       [line |-> 79, isa |-> "isa", mnemonic |-> "lb", variant |-> "RV32I",
        opcode |-> 3, funct3 |-> 0, funct7 |-> None, funct4 |-> None, funct6 |-> None],
       [line |-> 87, isa |-> "isa", mnemonic |-> "lh", variant |-> "RV32I",
        opcode |-> 3, funct3 |-> 1, funct7 |-> None, funct4 |-> None, funct6 |-> None],
       [line |-> 96, isa |-> "isa", mnemonic |-> "lw", variant |-> "RV32I",
        opcode |-> 3, funct3 |-> 2, funct7 |-> None, funct4 |-> None, funct6 |-> None],
       [line |-> 103, isa |-> "isa", mnemonic |-> "lbu", variant |-> "RV32I",
        opcode |-> 3, funct3 |-> 4, funct7 |-> None, funct4 |-> None, funct6 |-> None],
       [line |-> 109, isa |-> "isa", mnemonic |-> "lhu", variant |-> "RV32I",
        opcode |-> 3, funct3 |-> 5, funct7 |-> None, funct4 |-> None, funct6 |-> None],
       [line |-> 115, isa |-> "isa", mnemonic |-> "sb", variant |-> "RV32I",
        opcode |-> 35, funct3 |-> 0, funct7 |-> None, funct4 |-> None, funct6 |-> None],
       [line |-> 121, isa |-> "isa", mnemonic |-> "sh", variant |-> "RV32I",
        opcode |-> 35, funct3 |-> 1, funct7 |-> None, funct4 |-> None, funct6 |-> None],
       [line |-> 127, isa |-> "isa", mnemonic |-> "sw", variant |-> "RV32I",
        opcode |-> 35, funct3 |-> 2, funct7 |-> None, funct4 |-> None, funct6 |-> None],
       [line |-> 133, isa |-> "isa", mnemonic |-> "addi", variant |-> "RV32I",
        opcode |-> 19, funct3 |-> 0, funct7 |-> None, funct4 |-> None, funct6 |-> None],
       [line |-> 139, isa |-> "isa", mnemonic |-> "slti", variant |-> "RV32I",
        opcode |-> 19, funct3 |-> 2, funct7 |-> None, funct4 |-> None, funct6 |-> None],
       [line |-> 148, isa |-> "isa", mnemonic |-> "sltiu", variant |-> "RV32I",
        opcode |-> 19, funct3 |-> 3, funct7 |-> None, funct4 |-> None, funct6 |-> None],
       [line |-> 157, isa |-> "isa", mnemonic |-> "xori", variant |-> "RV32I",
        opcode |-> 19, funct3 |-> 4, funct7 |-> None, funct4 |-> None, funct6 |-> None],
       [line |-> 163, isa |-> "isa", mnemonic |-> "ori", variant |-> "RV32I",
        opcode |-> 19, funct3 |-> 6, funct7 |-> None, funct4 |-> None, funct6 |-> None],
       [line |-> 169, isa |-> "isa", mnemonic |-> "andi", variant |-> "RV32I",
        opcode |-> 19, funct3 |-> 7, funct7 |-> None, funct4 |-> None, funct6 |-> None],
       [line |-> 175, isa |-> "isa", mnemonic |-> "slli", variant |-> "RV32I",
        opcode |-> 19, funct3 |-> 1, funct7 |-> 0, funct4 |-> None, funct6 |-> None],
       [line |-> 181, isa |-> "isa", mnemonic |-> "srli", variant |-> "RV32I",
        opcode |-> 19, funct3 |-> 5, funct7 |-> 0, funct4 |-> None, funct6 |-> None],
       [line |-> 187, isa |-> "isa", mnemonic |-> "srai", variant |-> "RV32I",
        opcode |-> 19, funct3 |-> 5, funct7 |-> 32, funct4 |-> None, funct6 |-> None],
       [line |-> 193, isa |-> "isa", mnemonic |-> "add", variant |-> "RV32I",
        opcode |-> 51, funct3 |-> 0, funct7 |-> 0, funct4 |-> None, funct6 |-> None],
       [line |-> 199, isa |-> "isa", mnemonic |-> "sub", variant |-> "RV32I",
        opcode |-> 51, funct3 |-> 0, funct7 |-> 32, funct4 |-> None, funct6 |-> None],
       [line |-> 205, isa |-> "isa", mnemonic |-> "sll", variant |-> "RV32I",
        opcode |-> 51, funct3 |-> 1, funct7 |-> 0, funct4 |-> None, funct6 |-> None],
       [line |-> 211, isa |-> "isa", mnemonic |-> "slt", variant |-> "RV32I",
        opcode |-> 51, funct3 |-> 2, funct7 |-> 0, funct4 |-> None, funct6 |-> None],
       [line |-> 220, isa |-> "isa", mnemonic |-> "sltu", variant |-> "RV32I",
        opcode |-> 51, funct3 |-> 3, funct7 |-> 0, funct4 |-> None, funct6 |-> None],
       [line |-> 229, isa |-> "isa", mnemonic |-> "xor", variant |-> "RV32I",
        opcode |-> 51, funct3 |-> 4, funct7 |-> 0, funct4 |-> None, funct6 |-> None],
       [line |-> 235, isa |-> "isa", mnemonic |-> "srl", variant |-> "RV32I",
        opcode |-> 51, funct3 |-> 5, funct7 |-> 0, funct4 |-> None, funct6 |-> None],
       [line |-> 241, isa |-> "isa", mnemonic |-> "sra", variant |-> "RV32I",
        opcode |-> 51, funct3 |-> 5, funct7 |-> 32, funct4 |-> None, funct6 |-> None],
       [line |-> 247, isa |-> "isa", mnemonic |-> "or", variant |-> "RV32I",
        opcode |-> 51, funct3 |-> 6, funct7 |-> 0, funct4 |-> None, funct6 |-> None],
       [line |-> 253, isa |-> "isa", mnemonic |-> "and", variant |-> "RV32I",
        opcode |-> 51, funct3 |-> 7, funct7 |-> 0, funct4 |-> None, funct6 |-> None],
       [line |-> 259, isa |-> "isa", mnemonic |-> "fence", variant |-> "RV32I",
        opcode |-> 15, funct3 |-> 0, funct7 |-> 0, funct4 |-> None, funct6 |-> None],
       [line |-> 264, isa |-> "isa", mnemonic |-> "fence.i", variant |-> "RV32I",
        opcode |-> 15, funct3 |-> 1, funct7 |-> 0, funct4 |-> None, funct6 |-> None],
       [line |-> 269, isa |-> "isa", mnemonic |-> "ecall", variant |-> "RV32I",
        opcode |-> 115, funct3 |-> 0, funct7 |-> None, funct4 |-> None, funct6 |-> None],
       [line |-> 275, isa |-> "isa", mnemonic |-> "ebreak", variant |-> "RV32I",
        opcode |-> 115, funct3 |-> 0, funct7 |-> None, funct4 |-> None, funct6 |-> None],
       [line |-> 281, isa |-> "isa", mnemonic |-> "csrrw", variant |-> "RV32I",
        opcode |-> 115, funct3 |-> 1, funct7 |-> None, funct4 |-> None, funct6 |-> None],
       [line |-> 287, isa |-> "isa", mnemonic |-> "csrrs", variant |-> "RV32I",
        opcode |-> 115, funct3 |-> 2, funct7 |-> None, funct4 |-> None, funct6 |-> None],
       [line |-> 293, isa |-> "isa", mnemonic |-> "csrrc", variant |-> "RV32I",
        opcode |-> 115, funct3 |-> 3, funct7 |-> None, funct4 |-> None, funct6 |-> None],
       [line |-> 298, isa |-> "isa", mnemonic |-> "csrrwi", variant |-> "RV32I",
        opcode |-> 115, funct3 |-> 5, funct7 |-> None, funct4 |-> None, funct6 |-> None],
       [line |-> 303, isa |-> "isa", mnemonic |-> "csrrsi", variant |-> "RV32I",
        opcode |-> 115, funct3 |-> 6, funct7 |-> None, funct4 |-> None, funct6 |-> None],
       [line |-> 308, isa |-> "isa", mnemonic |-> "csrrci", variant |-> "RV32I",
        opcode |-> 115, funct3 |-> 7, funct7 |-> None, funct4 |-> None, funct6 |-> None],
       [line |-> 313, isa |-> "isa", mnemonic |-> "lwu", variant |-> "RV64I",
        opcode |-> 3, funct3 |-> 6, funct7 |-> None, funct4 |-> None, funct6 |-> None],
       [line |-> 318, isa |-> "isa", mnemonic |-> "ld", variant |-> "RV64I",
        opcode |-> 3, funct3 |-> 3, funct7 |-> None, funct4 |-> None, funct6 |-> None],
       [line |-> 323, isa |-> "isa", mnemonic |-> "sd", variant |-> "RV64I",
        opcode |-> 35, funct3 |-> 3, funct7 |-> None, funct4 |-> None, funct6 |-> None],
       [line |-> 334, isa |-> "isaC", mnemonic |-> "c.addi", variant |-> "RV32I",
        opcode |-> 1, funct3 |-> 0, funct7 |-> None, funct4 |-> None, funct6 |-> None],
       [line |-> 344, isa |-> "isaC", mnemonic |-> "c.addiw", variant |-> "RV64I",
        opcode |-> 1, funct3 |-> 1, funct7 |-> None, funct4 |-> None, funct6 |-> None],
       [line |-> 355, isa |-> "isaC", mnemonic |-> "c.andi", variant |-> "RV32I",
        opcode |-> 1, funct3 |-> 4, funct7 |-> None, funct4 |-> None, funct6 |-> None],
       [line |-> 361, isa |-> "isaC", mnemonic |-> "c.swsp", variant |-> "RV32I",
        opcode |-> 2, funct3 |-> 6, funct7 |-> None, funct4 |-> None, funct6 |-> None],
       [line |-> 377, isa |-> "isaC", mnemonic |-> "c.li", variant |-> "RV32I",
        opcode |-> 1, funct3 |-> 2, funct7 |-> None, funct4 |-> None, funct6 |-> None],
       [line |-> 386, isa |-> "isaC", mnemonic |-> "c.mv", variant |-> "RV32I",
        opcode |-> 2, funct3 |-> None, funct7 |-> None, funct4 |-> 8, funct6 |-> None],
       [line |-> 398, isa |-> "isaC", mnemonic |-> "c.nop", variant |-> "RV32I",
        opcode |-> 1, funct3 |-> 0, funct7 |-> None, funct4 |-> None, funct6 |-> None],
       [line |-> 408, isa |-> "isaC", mnemonic |-> "c.lui", variant |-> "RV32I",
        opcode |-> 1, funct3 |-> 3, funct7 |-> None, funct4 |-> None, funct6 |-> None],
       [line |-> 418, isa |-> "isaC", mnemonic |-> "c.addi16sp", variant |-> "RV32I",
        opcode |-> 1, funct3 |-> 3, funct7 |-> None, funct4 |-> None, funct6 |-> None],
       [line |-> 428, isa |-> "isaC", mnemonic |-> "c.srli", variant |-> "RV32I",
        opcode |-> 1, funct3 |-> 4, funct7 |-> None, funct4 |-> None, funct6 |-> None],
       [line |-> 438, isa |-> "isaC", mnemonic |-> "c.srai", variant |-> "RV32I",
        opcode |-> 1, funct3 |-> 4, funct7 |-> None, funct4 |-> None, funct6 |-> None],
       [line |-> 448, isa |-> "isaC", mnemonic |-> "c.ebreak", variant |-> "RV32I",
        opcode |-> 2, funct3 |-> None, funct7 |-> None, funct4 |-> 4, funct6 |-> None],
       [line |-> 464, isa |-> "isaC", mnemonic |-> "c.addi4spn", variant |-> "RV32I",
        opcode |-> 0, funct3 |-> 0, funct7 |-> None, funct4 |-> None, funct6 |-> None],
       [line |-> 474, isa |-> "isaC", mnemonic |-> "c.slli", variant |-> "RV32I",
        opcode |-> 2, funct3 |-> 2, funct7 |-> None, funct4 |-> None, funct6 |-> None],
       [line |-> 484, isa |-> "isaC", mnemonic |-> "c.add", variant |-> "RV32I",
        opcode |-> 2, funct3 |-> None, funct7 |-> None, funct4 |-> 4, funct6 |-> None],
       [line |-> 495, isa |-> "isaC", mnemonic |-> "c.sd", variant |-> "RV64I",
        opcode |-> 0, funct3 |-> 7, funct7 |-> None, funct4 |-> None, funct6 |-> None],
       [line |-> 511, isa |-> "isaC", mnemonic |-> "c.sdsp", variant |-> "RV64I",
        opcode |-> 2, funct3 |-> 7, funct7 |-> None, funct4 |-> None, funct6 |-> None],
       [line |-> 527, isa |-> "isaC", mnemonic |-> "c.j", variant |-> "RV32I",
        opcode |-> 1, funct3 |-> 5, funct7 |-> None, funct4 |-> None, funct6 |-> None],
       [line |-> 537, isa |-> "isaC", mnemonic |-> "c.beqz", variant |-> "RV32I",
        opcode |-> 1, funct3 |-> 6, funct7 |-> None, funct4 |-> None, funct6 |-> None],
       [line |-> 550, isa |-> "isaC", mnemonic |-> "c.bnez", variant |-> "RV32I",
        opcode |-> 1, funct3 |-> 7, funct7 |-> None, funct4 |-> None, funct6 |-> None],
       [line |-> 563, isa |-> "isaC", mnemonic |-> "c.jal", variant |-> "RV32I",
        opcode |-> 1, funct3 |-> 1, funct7 |-> None, funct4 |-> None, funct6 |-> None],
       [line |-> 575, isa |-> "isaC", mnemonic |-> "c.jr", variant |-> "RV32I",
        opcode |-> 2, funct3 |-> None, funct7 |-> None, funct4 |-> 4, funct6 |-> None],
       [line |-> 586, isa |-> "isaC", mnemonic |-> "c.jalr", variant |-> "RV32I",
        opcode |-> 2, funct3 |-> None, funct7 |-> None, funct4 |-> 4, funct6 |-> None],
       [line |-> 601, isa |-> "isaC", mnemonic |-> "c.lw", variant |-> "RV32I",
        opcode |-> 0, funct3 |-> 2, funct7 |-> None, funct4 |-> None, funct6 |-> None],
       [line |-> 612, isa |-> "isaC", mnemonic |-> "c.ld", variant |-> "RV64I",
        opcode |-> 0, funct3 |-> 3, funct7 |-> None, funct4 |-> None, funct6 |-> None],
       [line |-> 623, isa |-> "isaC", mnemonic |-> "c.and", variant |-> "RV32I",
        opcode |-> 1, funct3 |-> None, funct7 |-> None, funct4 |-> None, funct6 |-> 35],
       [line |-> 633, isa |-> "isaC", mnemonic |-> "c.or", variant |-> "RV32I",
        opcode |-> 1, funct3 |-> None, funct7 |-> None, funct4 |-> None, funct6 |-> 35],
       [line |-> 643, isa |-> "isaC", mnemonic |-> "c.xor", variant |-> "RV32I",
        opcode |-> 1, funct3 |-> None, funct7 |-> None, funct4 |-> None, funct6 |-> 35],
       [line |-> 654, isa |-> "isaC", mnemonic |-> "c.sub", variant |-> "RV32I",
        opcode |-> 1, funct3 |-> None, funct7 |-> None, funct4 |-> None, funct6 |-> 35],
       [line |-> 665, isa |-> "isaC", mnemonic |-> "c.addw", variant |-> "RV64C",
        opcode |-> 1, funct3 |-> None, funct7 |-> None, funct4 |-> None, funct6 |-> 39],
       [line |-> 676, isa |-> "isaC", mnemonic |-> "c.subw", variant |-> "RV32I",
        opcode |-> 1, funct3 |-> None, funct7 |-> None, funct4 |-> None, funct6 |-> 39],
       [line |-> 686, isa |-> "isaC", mnemonic |-> "c.sw", variant |-> "RV32I",
        opcode |-> 0, funct3 |-> 6, funct7 |-> None, funct4 |-> None, funct6 |-> None],
       [line |-> 701, isa |-> "isaC", mnemonic |-> "c.lwsp", variant |-> "RV32I",
        opcode |-> 2, funct3 |-> 2, funct7 |-> None, funct4 |-> None, funct6 |-> None],
       [line |-> 720, isa |-> "isaC", mnemonic |-> "c.ldsp", variant |-> "RV64I",
        opcode |-> 2, funct3 |-> 3, funct7 |-> None, funct4 |-> None, funct6 |-> None] >>

\* the dispatch key: (opcode, funct3, funct7) of a base instruction,
\* (quadrant, funct3, funct4, funct6) of a compressed one
DispatchKey(d) ==
    IF d.isa = "isa"
    THEN << d.opcode, d.funct3, d.funct7 >>
    ELSE << d.opcode, d.funct3, d.funct4, d.funct6 >>

\* the declared instructions a word of the given encoding, variant and key
\* selects
Selected(table, isa, variant, key) ==
    { table[k].mnemonic : k \in { j \in 1 .. Len(table) :
                                      /\ table[j].isa = isa
                                      /\ table[j].variant = variant
                                      /\ DispatchKey(table[j]) = key } }

IsaInit ==
    /\ isa_table = << >>
    /\ phase = "import"
    /\ op = [name |-> "init"]
    /\ ret = << >>
    /\ exc = "none"
    /\ intreg = RegisterFile(NumRegs, XLEN, Immutables)
    /\ committed = Values(intreg)
    /\ before = << >>
    /\ pc = 0
    /\ imm = IntObj(0) /\ lhs = IntObj(0) /\ rhs = IntObj(0)

\* the next decorator is applied
Declare ==
    /\ phase = "import"
    /\ Len(isa_table) < Len(Declarations)
    /\ isa_table' = Append(isa_table, Declarations[Len(isa_table) + 1])
    /\ op' = [name |-> "declare"]
    /\ before' = isa_table
    /\ UNCHANGED << intreg, pc, phase, imm, lhs, rhs, ret, exc, committed >>

\* the module is imported
Imported ==
    /\ phase = "import"
    /\ Len(isa_table) = Len(Declarations)
    /\ phase' = "decode"
    /\ op' = [name |-> "imported"]
    /\ UNCHANGED << intreg, pc, imm, lhs, rhs, ret, exc, committed, before, isa_table >>

\* a word that encodes a declared instruction is decoded
Decode ==
    /\ phase = "decode"
    /\ \E k \in 1 .. Len(isa_table) :
          LET d == isa_table[k]
          IN  /\ op' = [name |-> "decode", isa |-> d.isa, variant |-> d.variant,
                        key |-> DispatchKey(d)]
              /\ ret' = Selected(isa_table, d.isa, d.variant, DispatchKey(d))
    /\ UNCHANGED << intreg, pc, phase, imm, lhs, rhs, exc, committed, before, isa_table >>

IsaNext == Declare \/ Imported \/ Decode

SpecIsa == IsaInit /\ [][IsaNext]_vars

\* C16: the dispatch keys declared are pairwise distinct within one ISA
\* variant and encoding (base: opcode, funct3, funct7; compressed: quadrant,
\* funct3, funct4, funct6), so a word selects at most one instruction.
C16_DispatchKeysDistinct ==
    /\ \A j, k \in 1 .. Len(isa_table) :
          (/\ j # k
           /\ isa_table[j].isa = isa_table[k].isa
           /\ isa_table[j].variant = isa_table[k].variant)
              => DispatchKey(isa_table[j]) # DispatchKey(isa_table[k])
    /\ op.name = "decode" => Cardinality(ret) <= 1

====
